---- MODULE Spec2Model ----
(***************************************************************************)
(* Model of transcodash: the batch driver and argument construction of     *)
(* render.py (main, render_file, flatten_dict) and the argument            *)
(* construction of transcodash.py (append_to_list, generate_cli_args,      *)
(* app).                                                                   *)
(*                                                                         *)
(* Representation.  Python strings that the code only compares or prints   *)
(* are TLA+ strings.  Strings that the code builds are kept structured:    *)
(*   - a file name is the sequence of its '.'-separated components         *)
(*     ("a.mkv" is <<"a", "mkv">>); a path is [dir, name, new] where new   *)
(*     counts the "_new" suffixes render_file appended to the stem;        *)
(*   - a flattened key is the sequence of the dictionary keys joined by    *)
(*     sep; a render.py token f'-{key} {value}' is [key, val, file];       *)
(*   - a Python value is [t, n, b, s] with t its type.                     *)
(***************************************************************************)
EXTENDS Integers, Sequences, FiniteSets, TLC

VARIABLES
    \* render.py: settings.general (input: the file's name when the input is
    \* a file; listing: what os.listdir returns when it is a directory)
    input_type, input, listing, input_extensions,
    \* render.py: settings.ffmpeg_settings, settings.ffmpeg_render_args
    ffmpeg_settings, ffmpeg_render_args,
    \* render.py: settings.end_action
    end_action,
    \* the filesystem entries of the output directory
    existing,
    \* whether the shell finds the encoder that render_file names (ffmpeg.exe)
    ffmpeg_installed,
    \* render.py: main's locals and position
    pc, total_file_list, now_ep_number,
    \* what the run did: the encoder command lines, their exit codes, and the
    \* sequence of observable events (log lines, processes, sleeps)
    commands, returncodes, trace, exit_status,
    \* render_file's argument list, built on its own (CompileSpec)
    ffmpeg_other_args,
    \* transcodash.py: FFmpegGeneralSettings' attributes, app's argument list
    general, raw_list, call, ffmpeg_cli_args,
    \* transcodash.py: the command line arguments of app
    args

vars == <<input_type, input, listing, input_extensions, ffmpeg_settings,
          ffmpeg_render_args, end_action, existing, ffmpeg_installed, pc, total_file_list,
          now_ep_number, commands, returncodes, trace, exit_status,
          ffmpeg_other_args, general, raw_list, call, ffmpeg_cli_args, args>>

(***************************************************************************)
(* Bounds of the model.                                                    *)
(***************************************************************************)
MaxFiles == 2
MaxOverrides == 1
\* the number of iterations after which a bounded no-clobber loop would give
\* up (the loop of render_file has no such number)
MaxIterations == 1

(***************************************************************************)
(* Python values.                                                          *)
(***************************************************************************)
None == "<None>"

PyNone == [t |-> "none", n |-> 0, b |-> FALSE, s |-> ""]
PyInt(i) == [t |-> "int", n |-> i, b |-> FALSE, s |-> ""]
PyBool(x) == [t |-> "bool", n |-> 0, b |-> x, s |-> ""]
PyStr(x) == [t |-> "str", n |-> 0, b |-> FALSE, s |-> x]
\* a float is kept as the text Python prints for it
PyFloat(x) == [t |-> "float", n |-> 0, b |-> FALSE, s |-> x]

Digits == <<"0", "1", "2", "3", "4", "5", "6", "7", "8", "9">>

\* str(i) for the integers the model uses
IntStr(i) == IF i >= 0 /\ i <= 9 THEN Digits[i + 1] ELSE "int"

\* str(v)
Str(v) ==
    CASE v.t = "none" -> "None"
      [] v.t = "int" -> IntStr(v.n)
      [] v.t = "bool" -> (IF v.b THEN "True" ELSE "False")
      [] OTHER -> v.s

\* list.insert(i, x): an index past the end appends
Insert(l, i, x) ==
    IF i >= Len(l) THEN Append(l, x)
    ELSE SubSeq(l, 1, i) \o <<x>> \o SubSeq(l, i + 1, Len(l))

(***************************************************************************)
(* Paths.                                                                  *)
(***************************************************************************)
NoFile == [dir |-> "", name |-> <<>>, new |-> 0]

InPath(name) == [dir |-> "in", name |-> name, new |-> 0]

\* pathlib's stem: the name without its last suffix; a name has a suffix when
\* its last '.' is neither its first nor its last character
HasSuffix(name) ==
    /\ Len(name) >= 2
    /\ name[Len(name)] # ""
    /\ ~(Len(name) = 2 /\ name[1] = "")

Stem(name) == IF HasSuffix(name) THEN SubSeq(name, 1, Len(name) - 1) ELSE name

output_extension == "mp4"

\* main: pathlib.Path(settings.general.output, f'{input_file.stem}.{output_extension}')
OutputFile(input_file) ==
    [dir |-> "out", name |-> Append(Stem(input_file.name), output_extension), new |-> 0]

(***************************************************************************)
(* settings.ffmpeg_render_args: a dictionary is the sequence of its        *)
(* entries in insertion order; an entry holds a value or a dictionary.     *)
(***************************************************************************)
Leaf(k, v) == [k |-> k, leaf |-> TRUE, v |-> v, sub |-> <<>>]
Dict(k, d) == [k |-> k, leaf |-> FALSE, v |-> PyNone, sub |-> d]

additional_metadata ==
    << Leaf("metadata title=", PyNone),
       Leaf("metadata:s:v:0 title=", PyNone),
       Leaf("metadata:s:a:0 title=", PyNone),
       Leaf("metadata:s:v:0 language=", PyNone),
       Leaf("metadata:s:a:0 language=", PyNone),
       Leaf("metadata artist=", PyNone),
       Leaf("metadata year=", PyNone),
       Leaf("metadata genre=", PyNone),
       Leaf("metadata album=", PyNone),
       Leaf("metadata album_artist=", PyNone),
       Leaf("metadata comment=", PyNone),
       Leaf("metadata track=", PyNone) >>

\* the table as the source writes it
DefaultRenderArgs ==
    << Leaf("hwaccel", PyNone),
       Leaf("hwaccel_device", PyNone),
       Leaf("c:v", PyStr("libsvtav1")),
       Leaf("minrate:v", PyStr("2m")),
       Leaf("maxrate:v", PyStr("8m")),
       Leaf("quality", PyStr("high")),
       Leaf("level", PyFloat("4.0")),
       Leaf("b:v", PyInt(0)),
       Leaf("tune", PyInt(0)),
       Leaf("framerate", PyStr("60")),
       Leaf("threads", PyInt(0)),
       Leaf("tile_columns", PyInt(2)),
       Leaf("tile_rows", PyInt(4)),
       Leaf("profile:v", PyStr("main")),
       Leaf("pred", PyStr("complex")),
       Leaf("b_strategy", PyInt(1)),
       Leaf("bf", PyInt(2)),
       Leaf("c:a", PyStr("libopus")),
       Leaf("b:a", PyStr("128k")),
       Leaf("ar", PyStr("48000")),
       Leaf("c:s", PyStr("webvtt")),
       Leaf("pix_fmt", PyStr("yuv444p")),
       Leaf("sharpness", PyFloat("0.5")),
       Leaf("gamma", PyFloat("2.2")),
       Leaf("deblock", PyInt(4)),
       Leaf("noise_reduction", PyFloat("0.5")),
       Dict("additional_metadata", additional_metadata) >>

RECURSIVE AllNone(_)
\* the table with every render argument unset
AllNone(d) ==
    [i \in 1..Len(d) |->
        IF d[i].leaf THEN Leaf(d[i].k, PyNone) ELSE Dict(d[i].k, AllNone(d[i].sub))]

RECURSIVE SetAt(_, _, _)
\* the table with the value at a path of keys replaced
SetAt(d, path, v) ==
    [i \in 1..Len(d) |->
        IF d[i].k # path[1] THEN d[i]
        ELSE IF Len(path) = 1 THEN Leaf(d[i].k, v)
        ELSE Dict(d[i].k, SetAt(d[i].sub, Tail(path), v))]

\* a key is false as a Python string only when it is empty
KeyTruthy(key) == \E i \in 1..Len(key) : key[i] # ""

RECURSIVE flatten_dict_keeps_none(_, _, _, _)
\* faulty variant of flatten_dict: None values are not skipped
flatten_dict_keeps_none(d, parent_key, sep, skip_none) ==
    IF d = <<>> THEN <<>>
    ELSE LET e == Head(d)
             new_key == IF KeyTruthy(parent_key) THEN parent_key \o <<sep, e.k>>
                        ELSE <<e.k>>
             items == IF ~e.leaf
                      THEN flatten_dict_keeps_none(e.sub, new_key, sep, skip_none)
                      ELSE << [key |-> new_key,
                               val |-> IF e.v.t # "none" THEN Str(e.v) ELSE ""] >>
         IN  items \o flatten_dict_keeps_none(Tail(d), parent_key, sep, skip_none)

RECURSIVE flatten_dict(_, _, _, _)
\* the (key, str(value)) pairs of a dictionary, depth first; a key is the
\* sequence of the dictionary keys with sep between them
flatten_dict(d, parent_key, sep, skip_none) ==
    IF d = <<>> THEN <<>>
    ELSE LET e == Head(d)
             new_key == IF KeyTruthy(parent_key) THEN parent_key \o <<sep, e.k>>
                        ELSE <<e.k>>
             items == IF ~e.leaf THEN flatten_dict(e.sub, new_key, sep, skip_none)
                      ELSE IF e.v.t # "none" \/ ~skip_none
                           THEN << [key |-> new_key,
                                    val |-> IF e.v.t # "none" THEN Str(e.v) ELSE ""] >>
                           ELSE <<>>
         IN  items \o flatten_dict(Tail(d), parent_key, sep, skip_none)

(***************************************************************************)
(* render.py: render_file's argument list.                                 *)
(***************************************************************************)
Opt(key, val) == [key |-> <<key>>, val |-> val, file |-> NoFile]

\* f'-{key} {value}' if value else f'-{key}'
RenderToken(item) == [key |-> item.key, val |-> item.val, file |-> NoFile]

\* f'-i "{input.absolute()}"'
InputToken(inp) == [key |-> <<"i">>, val |-> "", file |-> inp]

\* f'"{output_dir}"'
OutputToken(output_dir) == [key |-> <<>>, val |-> "", file |-> output_dir]

\* a string or None is true when it is a non-empty string
Truthy(x) == x # None /\ x # ""

\* faulty variant of FreePath: '_new' is appended once when the path exists,
\* and the new path is not looked at again
FreePathNoRetry(output_dir, fs) ==
    IF output_dir \notin fs THEN output_dir
    ELSE [dir |-> output_dir.dir,
          name |-> Append(Stem(output_dir.name), output_extension),
          new |-> output_dir.new + 1]

RECURSIVE FreePath(_, _)
\* the while loop of the no-clobber branch: '_new' is appended to the stem
\* until no filesystem entry has the path
FreePath(output_dir, fs) ==
    IF output_dir \notin fs THEN output_dir
    ELSE FreePath([dir |-> output_dir.dir,
                   name |-> Append(Stem(output_dir.name), output_extension),
                   new |-> output_dir.new + 1], fs)

\* the position at which the ffmpeg_settings flags are inserted
FlagIndex == 2

\* faulty variant of WithOutput: an existing file is avoided under the
\* overwrite policy too
WithOutputAlwaysFree(l, output, st, fs) ==
    IF st.replace_existing_file
    THEN Append(Insert(l, 1, Opt("y", "")), OutputToken(FreePath(output, fs)))
    ELSE Append(l, OutputToken(FreePath(output, fs)))

\* the list after the overwrite / no-clobber branch
WithOutput(l, output, st, fs) ==
    IF st.replace_existing_file
    THEN Append(Insert(l, 1, Opt("y", "")), OutputToken(output))
    ELSE Append(l, OutputToken(FreePath(output, fs)))

\* the list after the flags of settings.ffmpeg_settings are inserted
WithFlags(l, st) ==
    LET a == IF st.hide_ffmpeg_banner
             THEN Insert(l, FlagIndex, Opt("hide_banner", "")) ELSE l
        b == IF st.show_extra_ffmpeg_debug_info
             THEN Insert(a, FlagIndex, Opt("stats", "")) ELSE a
        c == IF Truthy(st.ffmpeg_log_level_debug)
             THEN Insert(b, FlagIndex, Opt("loglevel", st.ffmpeg_log_level_debug))
             ELSE b
    IN  Insert(c, FlagIndex, Opt("strict", "experimental"))

\* ffmpeg_other_args as render_file hands it to the encoder
RenderFileArgs(inp, output, st, table, fs) ==
    LET items == flatten_dict(table, <<>>, " ", TRUE)
        other == [i \in 1..Len(items) |-> RenderToken(items[i])]
        withi == Insert(other, 0, InputToken(inp))
    IN  WithFlags(WithOutput(withi, output, st, fs), st)

\* the path render_file writes to
RenderFileOutput(output, st, fs) ==
    IF st.replace_existing_file THEN output ELSE FreePath(output, fs)

\* settings.ffmpeg_settings as the source writes it
DefaultFfmpegSettings ==
    [replace_existing_file |-> TRUE,
     intentional_delay_between_encodings |-> 1,
     hide_ffmpeg_banner |-> TRUE,
     show_extra_ffmpeg_debug_info |-> TRUE,
     ffmpeg_log_level_debug |-> "warning"]

(***************************************************************************)
(* render.py: main.                                                        *)
(***************************************************************************)
\* the children of the input directory: two of one stem, one whose extension
\* is in capitals, and one named 'mkv', with no '.' in its name
NamePool == {<<"a", "mkv">>, <<"a", "avi">>, <<"b", "MKV">>, <<"mkv">>}

ExtensionChoices == {<<>>, <<"mkv">>}

ExitCodes == {0, 1}

ModePool == {None, "shutdown", "Restart", "suspend", "hibernate", "sleep",
             "lock", "logout"}

CommandPool == {None, "notify.bat"}

\* the sequences of n distinct elements of S
Arrangements(S, n) ==
    {q \in [1..n -> S] : \A i, j \in 1..n : i # j => q[i] # q[j]}

Listings == UNION {Arrangements(NamePool, n) : n \in 0..MaxFiles}

InSeq(x, q) == \E i \in 1..Len(q) : q[i] = x

RECURSIVE SelectNames(_, _)
\* the comprehension of main: the children that pass the extension filter, in
\* listing order (input_extensions is <<>> when it is None)
SelectNames(names, exts) ==
    IF names = <<>> THEN <<>>
    ELSE LET n == Head(names)
             keep == exts = <<>> \/ InSeq(n[Len(n)], exts)
         IN  (IF keep THEN <<InPath(n)>> ELSE <<>>) \o SelectNames(Tail(names), exts)

\* total_file_list
TotalFileList(type, inp, names, exts) ==
    IF type = "file" THEN <<InPath(inp)>> ELSE SelectNames(names, exts)

\* faulty variant of ForHasNext: the loop leaves the last item out
ForStopsEarly(i, l) == i < Len(l) - 1

\* the for statement has another item after i of them were taken
ForHasNext(i, l) == i < Len(l)

Ev(ev, job, code, cmd) == [ev |-> ev, job |-> job, code |-> code, cmd |-> cmd]

\* str.lower() on the modes of the model
Lower(m) == IF m = "Restart" THEN "restart" ELSE m

\* faulty variant of EndActionEvents: the mode is looked at before the
\* custom command
EndActionModeFirst(custom_command, mode) ==
    IF Truthy(mode)
    THEN <<Ev("log_final_action", 0, 0, Lower(mode)),
           Ev("power", 0, 0, "shutdown -s -t 60")>>
    ELSE <<Ev("log_custom", 0, 0, custom_command),
           Ev("custom", 0, 0, custom_command)>>

\* what main does once the end delay is over: the log lines and the shell
\* commands of the custom command / mode branches
EndActionEvents(custom_command, mode) ==
    IF Truthy(custom_command)
    THEN <<Ev("log_custom", 0, 0, custom_command),
           Ev("custom", 0, 0, custom_command)>>
    ELSE IF ~Truthy(mode) THEN <<Ev("log_no_action", 0, 0, "")>>
    ELSE LET end_action_mode == Lower(mode)
             log == Ev("log_final_action", 0, 0, end_action_mode)
         IN  IF end_action_mode = "shutdown"
             THEN <<log, Ev("power", 0, 0, "shutdown -s -t 60")>>
             ELSE IF end_action_mode = "restart"
             THEN <<log, Ev("power", 0, 0, "shutdown -r -t 60")>>
             ELSE IF end_action_mode = "suspend"
             THEN <<log, Ev("power", 0, 0, "shutdown -h -t 60")>>
             ELSE <<log>>

\* faulty variant of ResultLine: the success line whatever the exit code
ResultLineAlwaysSuccess(job, code) == Ev("log_success", job, code, "")

\* the line main prints for a finished job
ResultLine(job, code) ==
    IF code = 0 THEN Ev("log_success", job, code, "") ELSE Ev("log_error", job, code, "")

\* faulty variant of DelayDue: the delay follows the last job too
DelayAfterEveryJob(now, total_file_quantity) == TRUE

\* main, line 157: the delay is due unless the job was the last one
DelayDue(now, total_file_quantity) == now # total_file_quantity

\* faulty variant of Launched: the driver goes on without waiting
LaunchedWithoutWaiting == "for"

\* subprocess.run returns when the encoder has exited: until then the driver
\* is waiting in render_file
Launched == "running"

\* faulty variant of EndActionSet: the final action is entered in any case
EndActionAlways(ea) == TRUE

\* main, line 162
EndActionSet(ea) == Truthy(ea.mode) \/ Truthy(ea.custom_command)

NoCall == [prefix |-> None, value |-> PyNone, ignore_if_not_value |-> FALSE,
           before |-> <<>>]

NoArgs ==
    [input_filepath |-> "", output_filepath |-> "", video_codec |-> "copy",
     audio_codec |-> "copy", subtitle_codec |-> "copy"]

NoGeneral ==
    [ffmpeg_path |-> PyNone, gpu_acceleration_api |-> PyNone,
     gpu_acceleration_device_index |-> PyNone, threads |-> PyNone,
     overwrite_existing_files |-> PyNone, hide_banner |-> PyNone,
     show_extra_debug_info |-> PyNone]

Init ==
    /\ input_type \in {"file", "directory"}
    /\ IF input_type = "file"
       THEN input \in NamePool /\ listing = <<>>
       ELSE input = <<>> /\ listing \in Listings
    /\ input_extensions \in ExtensionChoices
    /\ ffmpeg_settings \in
          {[DefaultFfmpegSettings EXCEPT !.replace_existing_file = r] : r \in BOOLEAN}
    /\ ffmpeg_render_args = DefaultRenderArgs
    /\ end_action \in [mode : ModePool, custom_command : CommandPool, time : {1}]
    /\ existing \in {{}, {OutputFile(InPath(<<"a", "mkv">>))}}
    /\ ffmpeg_installed \in BOOLEAN
    /\ pc = "enumerate"
    /\ total_file_list = <<>>
    /\ now_ep_number = 0
    /\ commands = <<>>
    /\ returncodes = <<>>
    /\ trace = <<>>
    /\ exit_status = -1
    /\ ffmpeg_other_args = <<>>
    /\ general = NoGeneral
    /\ raw_list = <<>>
    /\ call = NoCall
    /\ ffmpeg_cli_args = <<>>
    /\ args = NoArgs

\* nothing writes the settings, and nothing installs or removes the encoder
settings_unchanged ==
    UNCHANGED <<input_type, input, listing, input_extensions, ffmpeg_settings,
                ffmpeg_render_args, end_action, ffmpeg_installed>>

compile_unchanged ==
    UNCHANGED <<ffmpeg_other_args, general, raw_list, call, ffmpeg_cli_args, args>>

\* main, lines 135-145: the output directory is created and the inputs listed
Enumerate ==
    /\ pc = "enumerate"
    /\ total_file_list' = TotalFileList(input_type, input, listing, input_extensions)
    /\ now_ep_number' = 0
    /\ pc' = "for"
    /\ UNCHANGED <<existing, commands, returncodes, trace, exit_status>>
    /\ settings_unchanged /\ compile_unchanged

\* main, lines 147-151 and render_file, lines 100-128: the next input is
\* taken, its argument list built and the encoder started
StartRender ==
    /\ pc = "for"
    /\ ForHasNext(now_ep_number, total_file_list)
    /\ LET input_file == total_file_list[now_ep_number + 1]
           output_file == OutputFile(input_file)
           other_args == RenderFileArgs(input_file, output_file, ffmpeg_settings,
                                        ffmpeg_render_args, existing)
       IN  /\ now_ep_number' = now_ep_number + 1
           /\ commands' = Append(commands,
                 [input |-> input_file, args |-> other_args,
                  output |-> RenderFileOutput(output_file, ffmpeg_settings, existing)])
           /\ trace' = trace \o <<Ev("log_start", now_ep_number + 1, 0, ""),
                                  Ev("run", now_ep_number + 1, 0, "ffmpeg.exe")>>
    /\ pc' = Launched
    /\ UNCHANGED <<existing, total_file_list, returncodes, exit_status>>
    /\ settings_unchanged /\ compile_unchanged

\* render_file, lines 128-131 and main, lines 152-155: the encoder exits with
\* some code (leaving an output file when it succeeds, perhaps when it
\* fails), and the result line is printed; when the shell does not find the
\* encoder, subprocess.run returns the shell's own non-zero code
EncoderExit ==
    /\ pc = "running"
    /\ \E code \in ExitCodes, written \in BOOLEAN :
          /\ code = 0 => written
          /\ ~ffmpeg_installed => (code # 0 /\ ~written)
          /\ returncodes' = Append(returncodes, code)
          /\ trace' = trace \o <<Ev("exit", now_ep_number, code, "ffmpeg.exe"),
                                 ResultLine(now_ep_number, code)>>
          /\ existing' = IF written
                         THEN existing \cup {commands[Len(commands)].output}
                         ELSE existing
    /\ pc' = "after_render"
    /\ UNCHANGED <<total_file_list, now_ep_number, commands, exit_status>>
    /\ settings_unchanged /\ compile_unchanged

\* main, lines 157-160: the delay between two encodings
BetweenEncodings ==
    /\ pc = "after_render"
    /\ trace' = IF DelayDue(now_ep_number, Len(total_file_list))
                THEN Append(trace,
                        Ev("sleep", now_ep_number,
                           ffmpeg_settings.intentional_delay_between_encodings, ""))
                ELSE trace
    /\ pc' = "for"
    /\ UNCHANGED <<existing, total_file_list, now_ep_number, commands, returncodes,
                   exit_status>>
    /\ settings_unchanged /\ compile_unchanged

\* main, lines 162-164: after the loop, the delay before the final action
EndActionDelay ==
    /\ pc = "for"
    /\ ~ForHasNext(now_ep_number, total_file_list)
    /\ IF EndActionSet(end_action)
       THEN /\ trace' = Append(trace, Ev("end_sleep", 0, 0, ""))
            /\ pc' = "dispatch"
       ELSE /\ trace' = trace
            /\ pc' = "exit"
    /\ UNCHANGED <<existing, total_file_list, now_ep_number, commands, returncodes,
                   exit_status>>
    /\ settings_unchanged /\ compile_unchanged

\* main, lines 166-180: the custom command or the power command
Dispatch ==
    /\ pc = "dispatch"
    /\ trace' = trace \o EndActionEvents(end_action.custom_command, end_action.mode)
    /\ pc' = "exit"
    /\ UNCHANGED <<existing, total_file_list, now_ep_number, commands, returncodes,
                   exit_status>>
    /\ settings_unchanged /\ compile_unchanged

\* __main__, line 185: sys.exit() with no argument
SysExit ==
    /\ pc = "exit"
    /\ exit_status' = 0
    /\ pc' = "done"
    /\ UNCHANGED <<existing, total_file_list, now_ep_number, commands, returncodes,
                   trace>>
    /\ settings_unchanged /\ compile_unchanged

Next ==
    \/ Enumerate
    \/ StartRender
    \/ EncoderExit
    \/ BetweenEncodings
    \/ EndActionDelay
    \/ Dispatch
    \/ SysExit

Spec == Init /\ [][Next]_vars

(***************************************************************************)
(* transcodash.py: append_to_list, generate_cli_args, app.  The argument   *)
(* list is a sequence of strings.                                          *)
(***************************************************************************)
\* append_to_list: a bool value leaves the list alone; so does None when
\* ignore_if_not_value; otherwise str(prefix), then str(value), unless None
append_to_list(l, prefix, value, ignore_if_not_value) ==
    IF value.t = "bool" THEN l
    ELSE IF ignore_if_not_value /\ value.t = "none" THEN l
    ELSE LET a == IF prefix # None THEN Append(l, prefix) ELSE l
         IN  IF value.t # "none" THEN Append(a, Str(value)) ELSE a

\* the truth value of a Python value
PyTruthy(v) ==
    CASE v.t = "none" -> FALSE
      [] v.t = "int" -> v.n # 0
      [] v.t = "bool" -> v.b
      [] OTHER -> v.s # ""

\* 'flag' if setting else None
FlagOrNone(setting, flag) == IF PyTruthy(setting) THEN PyStr(flag) ELSE PyNone

\* FFmpegGeneralSettings.generate_cli_args
GeneralCliArgs(g) ==
    LET a == append_to_list(<<>>, None, g.ffmpeg_path, FALSE)
        b == append_to_list(a, "-hwaccel", g.gpu_acceleration_api, TRUE)
        c == append_to_list(b, "-hwaccel_device", g.gpu_acceleration_device_index, TRUE)
        d == append_to_list(c, "-threads", g.threads, TRUE)
        e == append_to_list(d, None, FlagOrNone(g.overwrite_existing_files, "-y"), FALSE)
        f == append_to_list(e, None, FlagOrNone(g.hide_banner, "-hide_banner"), FALSE)
    IN  append_to_list(f, None, FlagOrNone(g.show_extra_debug_info, "-stats"), FALSE)

\* the generate_cli_args of the sections of FFmpegRenderSettings: each
\* returns an empty list
VideoArgumentsCliArgs == <<>>
VideoFiltersCliArgs == <<>>
AudioArgumentsCliArgs == <<>>
AudioFiltersCliArgs == <<>>
SubtitleCliArgs == <<>>
MetadataCliArgs == <<>>
CustomCliArgs == <<>>

\* FFmpegRenderSettings.generate_cli_args
RenderCliArgs ==
    (VideoArgumentsCliArgs \o VideoFiltersCliArgs)
        \o (AudioArgumentsCliArgs \o AudioFiltersCliArgs)
        \o SubtitleCliArgs \o MetadataCliArgs \o CustomCliArgs

\* str.strip() leaves nothing
IsBlank(x) == x \in {"", " "}

RECURSIVE clean_list_items(_)
clean_list_items(l) ==
    IF l = <<>> THEN <<>>
    ELSE (IF Head(l) # None /\ ~IsBlank(Head(l)) THEN <<Head(l)>> ELSE <<>>)
             \o clean_list_items(Tail(l))

\* app, lines 614-619
AppCliArgs(g, input_filepath, output_filepath) ==
    LET a == GeneralCliArgs(g) \o RenderCliArgs
        b == Insert(a, 1, "-i")
        c == Insert(b, 2, input_filepath)
    IN  clean_list_items(Append(c, output_filepath))

\* calculate_best_parameters: the attributes it sets, given what
\* which('ffmpeg') and cpu_count() return (0 stands for None)
BestParameters(which_ffmpeg, cpus) ==
    [ffmpeg_path |-> PyStr(which_ffmpeg),
     gpu_acceleration_api |-> PyNone,
     gpu_acceleration_device_index |-> PyNone,
     threads |-> IF cpus <= 1 THEN PyNone ELSE PyInt(cpus - 1),
     overwrite_existing_files |-> PyBool(TRUE),
     hide_banner |-> PyBool(TRUE),
     show_extra_debug_info |-> PyBool(TRUE)]

(***************************************************************************)
(* transcodash.py: validate_arguments.  A path is the string given on the  *)
(* command line; the working directory is /in.                             *)
(***************************************************************************)
\* the filesystem validate_arguments looks at
Files == {"/in/a.mkv", "/out/old.mp4"}
Directories == {"/in", "/out", "/in/sub"}
OtherEntries == {"/in/fifo"}

is_file(p) == p \in Files
is_dir(p) == p \in Directories
exists(p) == p \in Files \cup Directories \cup OtherEntries

parent(p) ==
    CASE p \in {"/in/a.mkv", "/in/nofile.mkv", "/in/sub", "/in/fifo"} -> "/in"
      [] p \in {"/out/a.mp4", "/out/old.mp4"} -> "/out"
      [] OTHER -> "/"

\* Path(p).resolve(): a relative path is made absolute
Resolve(p) == IF p = "a.mkv" THEN "/in/a.mkv" ELSE p

InputPaths == {"/in/a.mkv", "a.mkv", "/in/nofile.mkv", "/in/sub"}

OutputPaths == {"/out/a.mp4", "/out/old.mp4", "/in/a.mkv", "a.mkv", "/out", "/in/fifo"}

\* the encoders of the local ffmpeg
OfferedCodecs == {"libopus"}

\* 'x in command_output' is a substring test on the listing that
\* 'ffmpeg -codecs' prints: the empty string, a blank and a part of a name
\* are in it as well as the names
InCommandOutput(x) == x \in OfferedCodecs \cup {"", " ", "lib"}

CodecPool == {"copy", "", " ", "libopus", "lib", "nocodec"}

\* exit_app(): sys.exit(None), which ends the process with status 0
exit_app == 0

\* the status of a process ended by an exception nobody caught
UncaughtException == 1

\* lines 117-119: 'not c or not str(c).strip()' of the first blank codec only
DefaultCodecs(a) ==
    IF IsBlank(a.video_codec) THEN [a EXCEPT !.video_codec = "copy"]
    ELSE IF IsBlank(a.audio_codec) THEN [a EXCEPT !.audio_codec = "copy"]
    ELSE IF IsBlank(a.subtitle_codec) THEN [a EXCEPT !.subtitle_codec = "copy"]
    ELSE a

\* faulty variant of same_path: the output is never taken for the input
same_path_never(input_filepath, output_filepath) == FALSE

\* line 104: the resolved paths are compared
same_path(input_filepath, output_filepath) == input_filepath = output_filepath

Returned(a) == [how |-> "return", error |-> "", args |-> a]
Exited(a, error) == [how |-> "exit", error |-> error, args |-> a]
Raised(a, error) == [how |-> "raise", error |-> error, args |-> a]

\* validate_arguments: how it ends (return, exit_app() after an error line,
\* or an exception) and the arguments as it leaves them; check_ok tells
\* whether 'ffmpeg -codecs' exits with 0
validate_arguments(a, installed, check_ok) ==
    LET input_filepath == Resolve(a.input_filepath)
        output_filepath == Resolve(a.output_filepath)
        a1 == [a EXCEPT !.input_filepath = input_filepath]
        a2 == [a1 EXCEPT !.output_filepath = output_filepath]
        a3 == DefaultCodecs(a2)
    IN  IF ~is_file(input_filepath) THEN Exited(a, "input")
        ELSE IF same_path(input_filepath, output_filepath) THEN Exited(a, "same")
        ELSE IF \/ is_dir(output_filepath)
                \/ /\ parent(output_filepath) = parent(input_filepath)
                   /\ exists(output_filepath)
                   /\ ~is_file(output_filepath)
             THEN Exited(a1, "output")
        ELSE IF a3.video_codec = "copy" /\ a3.audio_codec = "copy"
                   /\ a3.subtitle_codec = "copy"
             THEN Returned(a3)
        ELSE IF ~installed THEN Raised(a3, "FileNotFoundError")
        ELSE IF ~check_ok THEN Exited(a3, "codecs")
        ELSE IF a3.video_codec # "copy" /\ ~InCommandOutput(a3.video_codec)
             THEN Exited(a3, "video_codec")
        ELSE IF a3.audio_codec # "copy" /\ ~InCommandOutput(a3.audio_codec)
             THEN Exited(a3, "audio_codec")
        ELSE IF a3.subtitle_codec # "copy" /\ ~InCommandOutput(a3.subtitle_codec)
             THEN Exited(a3, "subtitle_codec")
        ELSE Returned(a3)

(***************************************************************************)
(* The argument construction on its own, over edited settings.             *)
(***************************************************************************)
\* a table nested three deep
NestedRenderArgs ==
    << Leaf("c:v", PyStr("libx264")),
       Dict("metadata",
            << Leaf("title=", PyNone),
               Dict("s",
                    << Leaf("language=", PyStr("eng")),
                       Leaf("handler=", PyNone) >>) >>),
       Leaf("c:a", PyNone) >>

BaseTables == {DefaultRenderArgs, AllNone(DefaultRenderArgs), NestedRenderArgs}

OverridePaths ==
    {<<"hwaccel">>, <<"c:v">>, <<"tune">>, <<"c:a">>,
     <<"additional_metadata", "metadata title=">>}

OverrideValues ==
    {PyNone, PyStr(""), PyStr("auto"), PyBool(TRUE), PyBool(FALSE)}

RECURSIVE ApplyOverrides(_, _)
ApplyOverrides(d, o) ==
    IF DOMAIN o = {} THEN d
    ELSE LET path == CHOOSE q \in DOMAIN o : TRUE
         IN  ApplyOverrides(SetAt(d, path, o[path]),
                            [q \in DOMAIN o \ {path} |-> o[q]])

\* the tables that differ from a base table in at most MaxOverrides values
Tables ==
    {ApplyOverrides(d, o) :
        d \in BaseTables,
        o \in UNION {[P -> OverrideValues] :
                        P \in {Q \in SUBSET OverridePaths : Cardinality(Q) <= MaxOverrides}}}

CpuCounts == {0, 1, 2, 8}

WhichFfmpeg == {None, "/usr/bin/ffmpeg"}

PrefixPool == {None, "-hwaccel", "-threads"}

ValuePool == {PyNone, PyStr(""), PyStr("cuda"), PyInt(0), PyInt(7),
              PyBool(TRUE), PyBool(FALSE)}

CompileInit ==
    /\ pc \in {"render_file", "app", "append"}
    /\ input_type = "file"
    /\ input \in (IF pc = "render_file" THEN {<<"a", "mkv">>, <<"c">>} ELSE {<<"a", "mkv">>})
    /\ listing = <<>>
    /\ input_extensions = <<>>
    /\ ffmpeg_settings \in
          (IF pc = "render_file"
           THEN [replace_existing_file : BOOLEAN,
                 intentional_delay_between_encodings : {1},
                 hide_ffmpeg_banner : BOOLEAN,
                 show_extra_ffmpeg_debug_info : BOOLEAN,
                 ffmpeg_log_level_debug : {None, "warning"}]
           ELSE {DefaultFfmpegSettings})
    /\ ffmpeg_render_args \in (IF pc = "render_file" THEN Tables ELSE {DefaultRenderArgs})
    /\ end_action = [mode |-> None, custom_command |-> None, time |-> 1]
    /\ existing \in (IF pc = "render_file"
                     THEN {{}, {OutputFile(InPath(<<"a", "mkv">>))}} ELSE {{}})
    /\ ffmpeg_installed \in (IF pc = "app" THEN BOOLEAN ELSE {TRUE})
    /\ total_file_list = <<>>
    /\ now_ep_number = 0
    /\ commands = <<>>
    /\ returncodes = <<>>
    /\ trace = <<>>
    /\ exit_status = -1
    /\ ffmpeg_other_args = <<>>
    /\ general = NoGeneral
    /\ raw_list = <<>>
    /\ call = NoCall
    /\ ffmpeg_cli_args = <<>>
    /\ args \in (IF pc = "app"
                 THEN [input_filepath : InputPaths, output_filepath : OutputPaths,
                       video_codec : CodecPool, audio_codec : CodecPool,
                       subtitle_codec : CodecPool]
                 ELSE {NoArgs})

main_unchanged ==
    UNCHANGED <<existing, total_file_list, now_ep_number, commands, returncodes,
                trace, exit_status>>

\* render_file, lines 100-122, for one input
BuildRenderArgs ==
    /\ pc = "render_file"
    /\ ffmpeg_other_args' =
          RenderFileArgs(InPath(input), OutputFile(InPath(input)), ffmpeg_settings,
                         ffmpeg_render_args, existing)
    /\ pc' = "compiled"
    /\ UNCHANGED <<general, raw_list, call, ffmpeg_cli_args, args>>
    /\ settings_unchanged /\ main_unchanged

app_unchanged ==
    UNCHANGED <<existing, total_file_list, now_ep_number, commands, returncodes>>

\* app, line 593: validate_arguments; an error line and exit_app(), an
\* exception of check_output, or the arguments resolved and defaulted
ValidateArguments ==
    /\ pc = "app"
    /\ \E check_ok \in BOOLEAN :
          LET r == validate_arguments(args, ffmpeg_installed, check_ok)
          IN  /\ args' = r.args
              /\ trace' = IF r.how = "return" THEN trace
                           ELSE Append(trace,
                                  Ev(IF r.how = "exit" THEN "print_error" ELSE "traceback",
                                     0, 0, r.error))
              /\ pc' = CASE r.how = "return" -> "retrieve_media_info"
                         [] r.how = "exit" -> "exited"
                         [] OTHER -> "raised"
              /\ exit_status' = CASE r.how = "return" -> exit_status
                                  [] r.how = "exit" -> exit_app
                                  [] OTHER -> UncaughtException
    /\ UNCHANGED <<ffmpeg_other_args, general, raw_list, call, ffmpeg_cli_args>>
    /\ settings_unchanged /\ app_unchanged

\* app, lines 596-597 and retrieve_media_info: the input is probed; any
\* exception of the probe is answered with an error line and exit_app()
RetrieveMediaInfo ==
    /\ pc = "retrieve_media_info"
    /\ \E parsed \in BOOLEAN :
          IF parsed
          THEN /\ trace' = Append(trace, Ev("retrieve_media_info", 0, 0, args.input_filepath))
               /\ pc' = "calculate"
               /\ exit_status' = exit_status
          ELSE /\ trace' = trace \o <<Ev("retrieve_media_info", 0, 0, args.input_filepath),
                                      Ev("print_error", 0, 0, "media_info")>>
               /\ pc' = "exited"
               /\ exit_status' = exit_app
    /\ UNCHANGED <<ffmpeg_other_args, general, raw_list, call, ffmpeg_cli_args, args>>
    /\ settings_unchanged /\ app_unchanged

\* app, lines 600-611: the settings objects are made and
\* calculate_best_parameters run; Path(None) raises when there is no ffmpeg
CalculateBestParameters ==
    /\ pc = "calculate"
    /\ \E which_ffmpeg \in WhichFfmpeg, cpus \in CpuCounts :
          /\ which_ffmpeg = None <=> ~ffmpeg_installed
          /\ IF which_ffmpeg = None
             THEN /\ pc' = "raised"
                  /\ general' = general
                  /\ trace' = Append(trace, Ev("traceback", 0, 0, "TypeError"))
                  /\ exit_status' = UncaughtException
             ELSE /\ pc' = "generate"
                  /\ general' = BestParameters(which_ffmpeg, cpus)
                  /\ trace' = trace
                  /\ exit_status' = exit_status
    /\ UNCHANGED <<ffmpeg_other_args, raw_list, call, ffmpeg_cli_args, args>>
    /\ settings_unchanged /\ app_unchanged

\* app, lines 614-619
GenerateCliArgs ==
    /\ pc = "generate"
    /\ ffmpeg_cli_args' = AppCliArgs(general, args.input_filepath, args.output_filepath)
    /\ pc' = "app_compiled"
    /\ UNCHANGED <<ffmpeg_other_args, general, raw_list, call, args>>
    /\ settings_unchanged /\ main_unchanged

\* render_file, lines 100-122, for the same input once more, after the
\* encoder of the first call has run and has or has not left its output
BuildRenderArgsAgain ==
    /\ pc = "compiled"
    /\ \E written \in BOOLEAN :
          LET output_file == OutputFile(InPath(input))
              fs == IF written
                    THEN existing \cup
                            {RenderFileOutput(output_file, ffmpeg_settings, existing)}
                    ELSE existing
          IN  /\ existing' = fs
              /\ commands' =
                    <<[input |-> InPath(input),
                       args |-> RenderFileArgs(InPath(input), output_file, ffmpeg_settings,
                                               ffmpeg_render_args, fs),
                       output |-> RenderFileOutput(output_file, ffmpeg_settings, fs)]>>
    /\ pc' = "recompiled"
    /\ UNCHANGED <<total_file_list, now_ep_number, returncodes, trace, exit_status>>
    /\ UNCHANGED <<ffmpeg_other_args, general, raw_list, call, ffmpeg_cli_args, args>>
    /\ settings_unchanged

\* app, lines 614-619, once more with the same attributes and arguments
GenerateCliArgsAgain ==
    /\ pc = "app_compiled"
    /\ commands' =
          <<[input |-> args.input_filepath,
             args |-> AppCliArgs(general, args.input_filepath, args.output_filepath),
             output |-> args.output_filepath]>>
    /\ pc' = "app_recompiled"
    /\ UNCHANGED <<existing, total_file_list, now_ep_number, returncodes, trace,
                   exit_status>>
    /\ UNCHANGED <<ffmpeg_other_args, general, raw_list, call, ffmpeg_cli_args, args>>
    /\ settings_unchanged

\* one call of append_to_list on a list of at most two items
AppendToList ==
    /\ pc \in {"append", "appended"}
    /\ Len(raw_list) <= 2
    /\ \E prefix \in PrefixPool, value \in ValuePool, ignore \in BOOLEAN :
          /\ raw_list' = append_to_list(raw_list, prefix, value, ignore)
          /\ call' = [prefix |-> prefix, value |-> value,
                      ignore_if_not_value |-> ignore, before |-> raw_list]
    /\ pc' = "appended"
    /\ UNCHANGED <<ffmpeg_other_args, general, ffmpeg_cli_args, args>>
    /\ settings_unchanged /\ main_unchanged

CompileNext ==
    \/ BuildRenderArgs
    \/ ValidateArguments
    \/ RetrieveMediaInfo
    \/ CalculateBestParameters
    \/ GenerateCliArgs
    \/ BuildRenderArgsAgain
    \/ GenerateCliArgsAgain
    \/ AppendToList

CompileSpec == CompileInit /\ [][CompileNext]_vars

(***************************************************************************)
(* Properties of the batch driver (Spec).                                  *)
(***************************************************************************)
\* the indices of the events of the trace of the given kinds
Events(kinds) == {i \in 1..Len(trace) : trace[i].ev \in kinds}

LoopOver == pc \in {"dispatch", "exit", "done"}

Configured(x) == Truthy(x)

\* C1: every input is handed to the encoder exactly once, in list order and
\* with no retry: the k-th encoder command is for the k-th input, the runs
\* are numbered 1, 2, ... with one run per command, a loop that has inputs
\* left goes on to the next one (the guard of StartRender holds) whatever the
\* exit codes so far, and once the loop is over every input has had its
\* command.
C1_EachInputOnceInOrder ==
    /\ Len(commands) <= Len(total_file_list)
    /\ \A k \in 1..Len(commands) : commands[k].input = total_file_list[k]
    /\ Cardinality(Events({"run"})) = Len(commands)
    /\ \A i \in Events({"run"}) :
          Cardinality({j \in Events({"run"}) : j <= i}) = trace[i].job
    /\ now_ep_number = Len(commands)
    /\ (pc = "for" /\ Len(commands) < Len(total_file_list))
         => ForHasNext(now_ep_number, total_file_list)
    /\ LoopOver => Len(commands) = Len(total_file_list)

\* C1 witness: a finished run of two inputs whose first job failed and whose
\* second job was run all the same
C1_Witness ==
    /\ pc = "done"
    /\ Len(total_file_list) = 2
    /\ returncodes[1] # 0
    /\ Len(commands) = 2
    /\ commands[2].input = total_file_list[2]

Succeeded == {k \in 1..Len(returncodes) : returncodes[k] = 0}
Failed == {k \in 1..Len(returncodes) : returncodes[k] # 0}

C3_CustomCommandPrecedence ==
    (Configured(end_action.custom_command) /\ Configured(end_action.mode)) =>
        /\ Events({"power"}) = {}
        /\ pc \in {"exit", "done"} =>
              /\ Cardinality(Events({"custom"})) = 1
              /\ \A i \in Events({"custom"}) : trace[i].cmd = end_action.custom_command

\* C3 witness: a finished run with both set that ran the custom command
C3_Witness ==
    /\ pc = "done"
    /\ Configured(end_action.custom_command)
    /\ Configured(end_action.mode)
    /\ Events({"custom"}) # {}

PowerTasks == {"shutdown", "restart", "suspend", "hibernate", "sleep", "lock", "logout"}

\* C4 (as claimed): with no custom command and a mode that is one of the
\* power tasks, the finished run has run a power command; and a finished run
\* with an end action set has run exactly one command, custom or power.
C4_PowerTaskDispatched ==
    pc \in {"exit", "done"} =>
        /\ (~Configured(end_action.custom_command)
              /\ Lower(end_action.mode) \in PowerTasks)
             => Cardinality(Events({"power"})) = 1
        /\ (Configured(end_action.custom_command) \/ Configured(end_action.mode))
             => Cardinality(Events({"custom", "power"})) = 1

\* C5 (as claimed): at most one end action command is ever run; when one is
\* run every job has exited and the end delay is over; and a finished run
\* with an end action set has run it, whatever the exit codes and also with
\* no input at all.
C5_EndActionOnceAfterBatch ==
    /\ Cardinality(Events({"custom", "power"})) <= 1
    /\ \A i \in Events({"custom", "power"}) :
          /\ Cardinality({j \in Events({"exit"}) : j < i}) = Len(total_file_list)
          /\ Cardinality({j \in Events({"run"}) : j < i}) = Len(total_file_list)
          /\ \E j \in Events({"end_sleep"}) : j < i
    /\ (pc \in {"exit", "done"}
          /\ (Configured(end_action.custom_command) \/ Configured(end_action.mode)))
         => Cardinality(Events({"custom", "power"})) = 1

(***************************************************************************)
(* The sections of the settings, as massvideorenderer.py groups the        *)
(* arguments that render.py keeps in one table.                            *)
(***************************************************************************)
GeneralKeys ==
    {"y", "hide_banner", "stats", "loglevel", "strict", "hwaccel", "hwaccel_device",
     "threads"}

VideoArgumentKeys ==
    {"c:v", "framerate", "b:v", "minrate:v", "maxrate:v", "quality", "level",
     "tile_columns", "tile_rows", "profile:v", "pred", "b_strategy", "bf", "pix_fmt"}

VideoFilterKeys == {"tune", "noise_reduction", "deblock", "sharpness", "gamma"}

AudioArgumentKeys == {"c:a", "b:a", "ar"}

SubtitleKeys == {"c:s"}

MetadataKeys == {"additional_metadata", "metadata"}

\* the place of a token's section in the order general, video arguments,
\* video filters, audio arguments, subtitle, metadata; 0 for the input and
\* output tokens
SectionRank(tok) ==
    IF tok.key = <<>> \/ tok.key = <<"i">> THEN 0
    ELSE CASE tok.key[1] \in GeneralKeys -> 1
           [] tok.key[1] \in VideoArgumentKeys -> 2
           [] tok.key[1] \in VideoFilterKeys -> 3
           [] tok.key[1] \in AudioArgumentKeys -> 4
           [] tok.key[1] \in SubtitleKeys -> 5
           [] tok.key[1] \in MetadataKeys -> 6
           [] OTHER -> 0

GeneralStrings == {"-hwaccel", "-hwaccel_device", "-threads", "-y", "-hide_banner", "-stats"}

(***************************************************************************)
(* Properties of the argument construction (CompileSpec).                  *)
(***************************************************************************)
RECURSIVE TableLeaves(_, _)
\* the values of a table, each with the key it is flattened to
TableLeaves(d, parent_key) ==
    UNION {IF d[i].leaf
           THEN {[key |-> parent_key \o <<d[i].k>>, v |-> d[i].v]}
           ELSE TableLeaves(d[i].sub, parent_key \o <<d[i].k, " ">>) : i \in 1..Len(d)}

TokensWithKey(key) == {i \in 1..Len(ffmpeg_other_args) : ffmpeg_other_args[i].key = key}

IsGeneralToken(tok) == Len(tok.key) = 1 /\ tok.key[1] \in GeneralKeys

IsCodecToken(tok) == Len(tok.key) = 1 /\ tok.key[1] \in {"c:v", "c:a", "c:s"}

\* C6 (as claimed): in the compiled arguments of render.py and of
\* transcodash.py, every general/runtime flag comes before the -i token, the
\* -i token follows them immediately, and every codec flag comes after it.
C6_InputAfterGeneralFlags ==
    /\ pc = "compiled" =>
          \A idx \in TokensWithKey(<<"i">>) :
              /\ \A j \in 1..Len(ffmpeg_other_args) :
                    IsGeneralToken(ffmpeg_other_args[j]) => j < idx
              /\ \A j \in 1..Len(ffmpeg_other_args) :
                    IsCodecToken(ffmpeg_other_args[j]) => j > idx
              /\ idx = 1 + Cardinality({j \in 1..Len(ffmpeg_other_args) :
                                          IsGeneralToken(ffmpeg_other_args[j])})
    /\ pc = "app_compiled" =>
          \A idx \in {i \in 1..Len(ffmpeg_cli_args) : ffmpeg_cli_args[i] = "-i"} :
              \A j \in 1..Len(ffmpeg_cli_args) :
                  ffmpeg_cli_args[j] \in GeneralStrings => j < idx

\* C7 (as claimed): the output path is the last token of the compiled
\* arguments, under both policies and with any table, the empty one too.
C7_OutputIsLast ==
    /\ pc = "compiled" =>
          /\ ffmpeg_other_args # <<>>
          /\ ffmpeg_other_args[Len(ffmpeg_other_args)].key = <<>>
          /\ ffmpeg_other_args[Len(ffmpeg_other_args)].file.dir = "out"
    /\ pc = "app_compiled" =>
          /\ ffmpeg_cli_args # <<>>
          /\ ffmpeg_cli_args[Len(ffmpeg_cli_args)] = args.output_filepath

\* C8 (as claimed): the tokens of the sections general, video arguments,
\* video filters, audio arguments, subtitle, metadata come in that order in
\* the compiled arguments, whichever settings are set and under both
\* policies.
C8_SectionOrder ==
    pc = "compiled" =>
        \A i, j \in 1..Len(ffmpeg_other_args) :
            (/\ i < j
             /\ SectionRank(ffmpeg_other_args[i]) # 0
             /\ SectionRank(ffmpeg_other_args[j]) # 0)
            => SectionRank(ffmpeg_other_args[i]) <= SectionRank(ffmpeg_other_args[j])

BoolCount(x) == IF x THEN 1 ELSE 0

\* C9: a value that is None contributes no token, at any depth of the table:
\* no token of render_file's list has its key, and the list holds one token
\* for each value that is not None besides the input, the output and the
\* flags of ffmpeg_settings; append_to_list with ignore_if_not_value leaves
\* the list as it was for None; and generate_cli_args emits no -hwaccel,
\* -hwaccel_device or -threads for an attribute that is None.
C9_NoneContributesNothing ==
    /\ pc = "compiled" =>
          LET leaves == TableLeaves(ffmpeg_render_args, <<>>)
          IN  /\ \A l \in leaves : l.v.t = "none" => TokensWithKey(l.key) = {}
              /\ Len(ffmpeg_other_args) =
                    Cardinality({l \in leaves : l.v.t # "none"}) + 3
                    + BoolCount(ffmpeg_settings.replace_existing_file)
                    + BoolCount(ffmpeg_settings.hide_ffmpeg_banner)
                    + BoolCount(ffmpeg_settings.show_extra_ffmpeg_debug_info)
                    + BoolCount(Truthy(ffmpeg_settings.ffmpeg_log_level_debug))
    /\ pc = "appended" =>
          ((call.value.t = "none" /\ call.ignore_if_not_value)
              => raw_list = call.before)
    /\ pc = "app_compiled" =>
          /\ general.gpu_acceleration_api.t = "none"
               => ~InSeq("-hwaccel", ffmpeg_cli_args)
          /\ general.gpu_acceleration_device_index.t = "none"
               => ~InSeq("-hwaccel_device", ffmpeg_cli_args)
          /\ general.threads.t = "none" => ~InSeq("-threads", ffmpeg_cli_args)

\* C9 witness: a compiled table with a None value three dictionaries deep,
\* beside a value of the same dictionary that did get its token
C9_Witness ==
    /\ pc = "compiled"
    /\ \E l \in TableLeaves(ffmpeg_render_args, <<>>) :
          /\ l.v.t = "none"
          /\ Len(l.key) = 5
    /\ \E i \in 1..Len(ffmpeg_other_args) : Len(ffmpeg_other_args[i].key) = 5

\* C10 (as claimed): a boolean True contributes exactly one token, the flag
\* alone, and a boolean False none: for the booleans of render.py's table,
\* for a boolean value handed to append_to_list (the flag being its prefix),
\* and for the boolean attributes of generate_cli_args.
C10_BooleanFlags ==
    /\ pc = "compiled" =>
          \A l \in TableLeaves(ffmpeg_render_args, <<>>) :
              l.v.t = "bool" =>
                  IF l.v.b
                  THEN /\ Cardinality(TokensWithKey(l.key)) = 1
                       /\ \A i \in TokensWithKey(l.key) : ffmpeg_other_args[i].val = ""
                  ELSE TokensWithKey(l.key) = {}
    /\ pc = "appended" =>
          ((call.value.t = "bool" /\ call.prefix # None) =>
              raw_list = IF call.value.b THEN Append(call.before, call.prefix)
                         ELSE call.before)
    /\ pc = "app_compiled" =>
          Cardinality({i \in 1..Len(ffmpeg_cli_args) : ffmpeg_cli_args[i] = "-hide_banner"})
              = BoolCount(PyTruthy(general.hide_banner))

(***************************************************************************)
(* Properties of the output path (Spec).                                   *)
(***************************************************************************)
\* the k-th path the no-clobber loop looks at for an output: the output
\* itself for k = 0, '_new' appended k times to its stem otherwise
Candidate(output, k) == [dir |-> output.dir, name |-> output.name, new |-> k]

NoClobber == ~ffmpeg_settings.replace_existing_file

\* C11: under the no-clobber policy, the path render_file chose for the job
\* that is running names no filesystem entry; it is the k-th candidate of the
\* job's output for the smallest k whose candidate is free (the output itself
\* when that is free, since then k = 0); it differs from every path of an
\* earlier job that is among the filesystem entries; and two jobs never get
\* the same path when the earlier one exited with 0 and so left its file.
C11_NoClobberUniqueness ==
    NoClobber =>
        /\ pc = "running" =>
              LET o == commands[Len(commands)].output
                  base == OutputFile(commands[Len(commands)].input)
              IN  /\ o \notin existing
                  /\ o = Candidate(base, o.new)
                  /\ \A k \in 0..(o.new - 1) : Candidate(base, k) \in existing
                  /\ \A j \in 1..(Len(commands) - 1) :
                        commands[j].output \in existing => commands[j].output # o
        /\ \A j, k \in 1..Len(commands) :
              (j < k /\ returncodes[j] = 0) => commands[j].output # commands[k].output

\* C11 witness: the output of the second job existed before the run, the
\* first job took the path with one '_new' and wrote it, and the second job
\* is running with the path with two
C11_Witness ==
    /\ NoClobber
    /\ pc = "running"
    /\ Len(commands) = 2
    /\ commands[1].output.new = 1
    /\ commands[1].output \in existing
    /\ commands[2].output.new = 2

\* C12 (as claimed): the no-clobber loop is bounded: it gives up after
\* MaxIterations iterations with a PathExhausted failure, so no encoder is
\* ever run with a path that took more iterations than that, and a job whose
\* candidates all exist up to the bound has a failure recorded in place of an
\* encoder run.
C12_BoundedResolution ==
    NoClobber =>
        /\ \A k \in 1..Len(commands) : commands[k].output.new <= MaxIterations
        /\ pc = "running" =>
              ((\A i \in 0..MaxIterations :
                    Candidate(OutputFile(commands[Len(commands)].input), i) \in existing)
                 => \E i \in Events({"path_exhausted"}) : trace[i].job = Len(commands))

(***************************************************************************)
(* Properties of the batch driver's failure handling (Spec).               *)
(***************************************************************************)
\* C13 (as claimed): when the encoder cannot be launched, the batch is
\* aborted before any job: no job is announced or run, no per-job error line
\* is printed, and the finished run has reported one fatal error.
C13_MissingEncoderAbortsUpFront ==
    ~ffmpeg_installed =>
        /\ Events({"log_start", "run"}) = {}
        /\ Events({"log_error"}) = {}
        /\ pc = "done" => Cardinality(Events({"fatal"})) = 1

\* C14 (as claimed): the exit status of a finished run is 0 only if every
\* job exited with 0, and is not 0 when some job failed.
C14_ExitStatusReflectsFailures ==
    pc = "done" =>
        /\ exit_status = 0 => Failed = {}
        /\ Failed # {} => exit_status # 0

(***************************************************************************)
(* Properties of validate_arguments (CompileSpec).                         *)
(***************************************************************************)
AfterValidation ==
    pc \in {"retrieve_media_info", "calculate", "generate", "app_compiled",
            "exited", "raised"}

ValidationErrors ==
    {"input", "same", "output", "codecs", "video_codec", "audio_codec",
     "subtitle_codec"}

\* validate_arguments printed one of its error lines
ValidationFailed ==
    \E i \in Events({"print_error"}) : trace[i].cmd \in ValidationErrors

\* the arguments name an input that is no file, an output that is the input
\* or a directory, or a codec that the local encoder does not offer
ConfigurationError(a) ==
    \/ ~is_file(Resolve(a.input_filepath))
    \/ Resolve(a.input_filepath) = Resolve(a.output_filepath)
    \/ is_dir(Resolve(a.output_filepath))
    \/ \E c \in {a.video_codec, a.audio_codec, a.subtitle_codec} :
          ~IsBlank(c) /\ c # "copy" /\ c \notin OfferedCodecs

\* C15 (as claimed): once validate_arguments is over, arguments with a
\* configuration error have ended the process, and a process that
\* validate_arguments ended has a non-zero exit status, has not probed the
\* input and has compiled no argument list.
C15_ConfigErrorsExitNonZero ==
    AfterValidation =>
        /\ ConfigurationError(args) => pc \in {"exited", "raised"}
        /\ (ConfigurationError(args) \/ ValidationFailed) =>
              /\ exit_status # 0
              /\ Events({"retrieve_media_info"}) = {}
              /\ ffmpeg_cli_args = <<>>

(***************************************************************************)
(* Properties of the batch driver's pacing (Spec).                         *)
(***************************************************************************)
SleepsAfter(k) == {i \in Events({"sleep"}) : trace[i].job = k}

\* C16: the driver sleeps the configured delay once after each job but the
\* last: every sleep follows at once the result line of a job that is not
\* the last one and lasts the configured delay, every job after the first is
\* announced right after the sleep that follows its predecessor, a job has
\* one sleep once the driver is past it and none before, and a batch of n
\* inputs has slept n - 1 times when its loop is over (never for n = 0 or 1).
C16_InterItemDelay ==
    /\ \A i \in Events({"sleep"}) :
          /\ trace[i].job \in 1..(Len(total_file_list) - 1)
          /\ trace[i].code = ffmpeg_settings.intentional_delay_between_encodings
          /\ i > 1
          /\ trace[i - 1].ev \in {"log_success", "log_error"}
          /\ trace[i - 1].job = trace[i].job
    /\ \A i \in Events({"log_start"}) :
          trace[i].job > 1 =>
              /\ trace[i - 1].ev = "sleep"
              /\ trace[i - 1].job = trace[i].job - 1
    /\ \A k \in 1..Len(total_file_list) :
          Cardinality(SleepsAfter(k)) =
              IF k < Len(total_file_list)
                   /\ (k < now_ep_number \/ (k = now_ep_number /\ pc = "for"))
              THEN 1 ELSE 0
    /\ LoopOver =>
          Cardinality(Events({"sleep"})) =
              IF Len(total_file_list) >= 1 THEN Len(total_file_list) - 1 ELSE 0

\* C16 witness: a finished run of two inputs that slept once, between them
C16_Witness ==
    /\ pc = "done"
    /\ Len(total_file_list) = 2
    /\ Cardinality(Events({"sleep"})) = 1
    /\ \E i \in Events({"sleep"}) : trace[i + 1] = Ev("log_start", 2, 0, "")

InFlight == Cardinality(Events({"run"})) - Cardinality(Events({"exit"}))

\* C17: at most one encoder is in flight, and one is exactly while the
\* driver waits in render_file; the encoder of a job is started only when
\* every earlier job has been started, has exited and has had its result
\* line printed, in that order.
C17_StrictlySequential ==
    /\ InFlight \in {0, 1}
    /\ InFlight = 1 <=> pc = "running"
    /\ \A i \in Events({"run"}) :
          \A k \in 1..(trace[i].job - 1) :
              \E r, x, l \in 1..(i - 1) :
                  /\ r < x /\ x < l
                  /\ trace[r].ev = "run" /\ trace[r].job = k
                  /\ trace[x].ev = "exit" /\ trace[x].job = k
                  /\ trace[l].ev \in {"log_success", "log_error"} /\ trace[l].job = k

\* C17 witness: the second encoder is in flight, after the first has exited
C17_Witness ==
    /\ pc = "running"
    /\ now_ep_number = 2
    /\ Cardinality(Events({"exit"})) = 1

EndActionKinds ==
    {"end_sleep", "log_custom", "custom", "log_no_action", "log_final_action", "power"}

\* C18: with neither a custom command nor a mode set, the run has no end
\* delay, runs no command and no power command, and prints nothing about a
\* final action: after the loop it only exits.
C18_EndActionNoOp ==
    (~Configured(end_action.custom_command) /\ ~Configured(end_action.mode)) =>
        /\ Events(EndActionKinds) = {}
        /\ pc # "dispatch"

\* C18 witness: a finished run of two inputs with no end action set
C18_Witness ==
    /\ pc = "done"
    /\ ~Configured(end_action.custom_command)
    /\ ~Configured(end_action.mode)
    /\ Len(returncodes) = 2

(***************************************************************************)
(* Properties of repeated compilation (CompileSpec).                       *)
(***************************************************************************)
\* the path of the output token of an argument list of render_file
OutputOf(l) == l[CHOOSE i \in 1..Len(l) : l[i].key = <<>>].file

HasExtension(name) == Len(name) >= 2

ExtensionOf(name) == name[Len(name)]

\* C20 (as claimed): for a file the list is that one entry; for a directory
\* the list holds children of the directory only, each once, and a child is
\* in it exactly when no allow-list is set or the child has an extension
\* that is, letter for letter, in the allow-list: a child with no '.' in its
\* name is not selected by an allow-list.
C20_InputEnumeration ==
    pc # "enumerate" =>
        IF input_type = "file" THEN total_file_list = <<InPath(input)>>
        ELSE /\ \A i \in 1..Len(total_file_list) :
                   \E j \in 1..Len(listing) : total_file_list[i] = InPath(listing[j])
             /\ \A i, j \in 1..Len(total_file_list) :
                   total_file_list[i] = total_file_list[j] => i = j
             /\ \A j \in 1..Len(listing) :
                   InSeq(InPath(listing[j]), total_file_list)
                     <=> \/ input_extensions = <<>>
                         \/ /\ HasExtension(listing[j])
                            /\ InSeq(ExtensionOf(listing[j]), input_extensions)

(***************************************************************************)
(* Properties of what validate_arguments returns (CompileSpec).            *)
(***************************************************************************)
\* validate_arguments has returned to app
ValidationReturned ==
    pc \in {"retrieve_media_info", "calculate", "generate", "app_compiled",
            "app_recompiled"}
      \/ (pc \in {"exited", "raised"} /\ Events({"retrieve_media_info"}) # {})
      \/ (pc = "raised" /\ \E i \in Events({"traceback"}) : trace[i].cmd = "TypeError")

\* C21 (as claimed): once validate_arguments has returned, none of the three
\* codec arguments is empty or blank: each one that was has become 'copy',
\* whichever of the three were blank.
C21_CodecsDefaulted ==
    ValidationReturned =>
        /\ ~IsBlank(args.video_codec)
        /\ ~IsBlank(args.audio_codec)
        /\ ~IsBlank(args.subtitle_codec)

\* the error line that validate_arguments printed, "" when it printed none
ValidationError ==
    IF ValidationFailed
    THEN trace[CHOOSE i \in Events({"print_error"}) : trace[i].cmd \in ValidationErrors].cmd
    ELSE ""

\* C22: validate_arguments returns only with an input that is a file, an
\* output that is another path than the input and no directory; arguments
\* whose input is no file, whose output is the input (also when one of the
\* two is written relative to the working directory) or a directory end the
\* process with the error line of that case, before the input is probed and
\* with no argument list compiled; so a compiled list of app names two
\* different paths.
C22_ValidatedPaths ==
    /\ ValidationReturned =>
          /\ is_file(args.input_filepath)
          /\ args.input_filepath # args.output_filepath
          /\ ~is_dir(args.output_filepath)
          /\ Resolve(args.input_filepath) = args.input_filepath
          /\ Resolve(args.output_filepath) = args.output_filepath
    /\ AfterValidation =>
          LET i == Resolve(args.input_filepath)
              o == Resolve(args.output_filepath)
              expected == IF ~is_file(i) THEN "input"
                          ELSE IF i = o THEN "same"
                          ELSE IF is_dir(o) THEN "output"
                          ELSE ""
          IN  expected # "" =>
                  /\ pc = "exited"
                  /\ ValidationError = expected
                  /\ Len(trace) = 1
                  /\ ffmpeg_cli_args = <<>>
    /\ pc \in {"app_compiled", "app_recompiled"} =>
          /\ args.input_filepath # args.output_filepath
          /\ InSeq(args.input_filepath, ffmpeg_cli_args)
          /\ ffmpeg_cli_args[Len(ffmpeg_cli_args)] = args.output_filepath

\* C22 witness: the output was given as a.mkv and the input as /in/a.mkv,
\* the same file, and validate_arguments ended the process for it
C22_Witness ==
    /\ pc = "exited"
    /\ args.input_filepath # args.output_filepath
    /\ Resolve(args.input_filepath) = Resolve(args.output_filepath)
    /\ ValidationError = "same"

====
